---- MODULE Spec2Model ----
(***************************************************************************)
(* Device power management of the kernel excerpt:                          *)
(*   - subsys/pm/device.c     : pm_device_state_set/get, the flag          *)
(*     operations and the bulk orchestrator (_pm_devices,                  *)
(*     pm_resume_devices);                                                 *)
(*   - subsys/power/device_pm.c : usage-counted runtime PM                 *)
(*     (device_pm_request and device_pm_callback).                         *)
(* The specifications share the variables:                                 *)
(*   Spec     sequential callers of subsys/pm/device.c (SpecBulk: with the *)
(*            operation before the last remembered),                       *)
(*   SpecDep  sequential callers of pm_device_state_set/get over every     *)
(*            assignment of callbacks to the devices,                      *)
(*   SpecSet  two threads inside pm_device_state_set,                      *)
(*   SpecFlags threads inside the flag operations,                         *)
(*   SpecRT   threads and the driver's completion callbacks of             *)
(*            subsys/power/device_pm.c (SpecRTLive: with fairness),        *)
(*   SpecDom  the power-domain tests of tests/subsys/pm.                   *)
(***************************************************************************)
EXTENDS Integers, Sequences, FiniteSets, TLC

\* ------------------------------------------------------------------ bounds
\* number of entries of the static device table
NDev == 2
\* operations (calls of the public functions) made in one behaviour
MaxOps == 4

Devs == 1..NDev

\* ---------------------------------------------------------------- values
\* enum pm_device_state, and one value outside the enum
PM_DEVICE_STATE_ACTIVE == "ACTIVE"
PM_DEVICE_STATE_LOW_POWER == "LOW_POWER"
PM_DEVICE_STATE_SUSPENDED == "SUSPENDED"
PM_DEVICE_STATE_OFF == "OFF"
PmStates ==
  {PM_DEVICE_STATE_ACTIVE, PM_DEVICE_STATE_LOW_POWER,
   PM_DEVICE_STATE_SUSPENDED, PM_DEVICE_STATE_OFF}
InvalidState == "INVALID"
Targets == PmStates \cup {InvalidState}

\* return values: "0", "1" (non-negative) and the negative errno values
OK == "0"
ENOSYS == "-ENOSYS"
ENOTSUP == "-ENOTSUP"
EALREADY == "-EALREADY"
EBUSY == "-EBUSY"
EIO == "-EIO"
IsNeg(ret) == ret \notin {"0", "1"}

\* what a driver's pm_control callback may return
DrvRets == {OK, EIO, ENOTSUP}

\* pm flags
PM_DEVICE_FLAG_BUSY == "BUSY"
PM_DEVICE_FLAGS_WS_CAPABLE == "WS_CAPABLE"
PM_DEVICE_FLAGS_WS_ENABLED == "WS_ENABLED"
PM_DEVICE_FLAG_TRANSITIONING == "TRANSITIONING"
PM_DEVICE_FLAG_IGNORE_CHILDREN == "IGNORE_CHILDREN"

VARIABLES
  pm_control,   \* [Devs -> BOOLEAN]: dev->pm_control != NULL
  requires,     \* [Devs -> SUBSET Devs]: the devices a device requires
  state,        \* [Devs -> PmStates]: dev->pm->state
  flags,        \* [Devs -> SUBSET flag names]: dev->pm->flags
  slots,        \* __pm_device_slots_start[0 .. num_susp-1]
  last,         \* the operation that ran last and what it returned
  calls,        \* the driver callbacks the last operation invoked, in order
  visits,       \* pm_device_state_set calls of the last bulk pass, in order
  nops          \* operations made so far

varsPM == <<pm_control, requires, state, flags, slots, last, calls, visits, nops>>

\* ------------------------------------------------- static device table
\* handles in ascending order, as the foreach helpers visit them
RECURSIVE SetToSeq(_)
SetToSeq(S) ==
  IF S = {} THEN <<>>
  ELSE LET m == CHOOSE x \in S : \A y \in S : x <= y
       IN <<m>> \o SetToSeq(S \ {m})

\* the devices that require dev (the devices dev supports)
supported(dev) == {e \in Devs : dev \in requires[e]}

\* the dependency shapes of the table: every device requires only devices
\* that precede it in the table
ChainTopology == [d \in Devs |-> IF d = 1 THEN {} ELSE {d - 1}]
StarTopology == [d \in Devs |-> IF d = 1 THEN {} ELSE {1}]
Topologies == {ChainTopology, StarTopology}
\* which devices have a pm_control callback: all, or all but the first
Capabilities == {[d \in Devs |-> TRUE], [d \in Devs |-> d # 1]}
\* the devices built wakeup capable
WsCapable == {NDev}

\* ------------------------------------------------- subsys/pm/device.c
pm_device_is_busy(dev) == PM_DEVICE_FLAG_BUSY \in flags[dev]

pm_device_wakeup_is_enabled(dev) == PM_DEVICE_FLAGS_WS_ENABLED \in flags[dev]

pm_device_wakeup_is_capable(dev) == PM_DEVICE_FLAGS_WS_CAPABLE \in flags[dev]

pm_device_ignore_children_is_enabled(dev) ==
  PM_DEVICE_FLAG_IGNORE_CHILDREN \in flags[dev]

\* [ret, state]: ret -ENOSYS and no state without a callback
pm_device_state_get(dev, st) ==
  IF ~pm_control[dev] THEN [ret |-> ENOSYS, state |-> "none"]
  ELSE [ret |-> OK, state |-> st[dev]]

\* StateSwitch with the LOW_POWER case missing its "already there" test
StateSwitch_NoAlready(cur, s) ==
  CASE s = PM_DEVICE_STATE_SUSPENDED ->
         IF cur = PM_DEVICE_STATE_SUSPENDED THEN [ret |-> EALREADY, action |-> "none"]
         ELSE IF cur = PM_DEVICE_STATE_OFF THEN [ret |-> ENOTSUP, action |-> "none"]
         ELSE [ret |-> OK, action |-> "SUSPEND"]
    [] s = PM_DEVICE_STATE_ACTIVE ->
         IF cur = PM_DEVICE_STATE_ACTIVE THEN [ret |-> EALREADY, action |-> "none"]
         ELSE [ret |-> OK, action |-> "RESUME"]
    [] s = PM_DEVICE_STATE_LOW_POWER -> [ret |-> OK, action |-> "LOW_POWER"]
    [] s = PM_DEVICE_STATE_OFF ->
         IF cur = s THEN [ret |-> EALREADY, action |-> "none"]
         ELSE [ret |-> OK, action |-> "TURN_OFF"]
    [] OTHER -> [ret |-> ENOTSUP, action |-> "none"]

\* StateSwitch that asks the driver to SUSPEND for the target LOW_POWER
StateSwitch_WrongAction(cur, s) ==
  CASE s = PM_DEVICE_STATE_SUSPENDED ->
         IF cur = PM_DEVICE_STATE_SUSPENDED THEN [ret |-> EALREADY, action |-> "none"]
         ELSE IF cur = PM_DEVICE_STATE_OFF THEN [ret |-> ENOTSUP, action |-> "none"]
         ELSE [ret |-> OK, action |-> "SUSPEND"]
    [] s = PM_DEVICE_STATE_ACTIVE ->
         IF cur = PM_DEVICE_STATE_ACTIVE THEN [ret |-> EALREADY, action |-> "none"]
         ELSE [ret |-> OK, action |-> "RESUME"]
    [] s = PM_DEVICE_STATE_LOW_POWER ->
         IF cur = s THEN [ret |-> EALREADY, action |-> "none"]
         ELSE [ret |-> OK, action |-> "SUSPEND"]
    [] s = PM_DEVICE_STATE_OFF ->
         IF cur = s THEN [ret |-> EALREADY, action |-> "none"]
         ELSE [ret |-> OK, action |-> "TURN_OFF"]
    [] OTHER -> [ret |-> ENOTSUP, action |-> "none"]

\* the switch of pm_device_state_set: the error it returns, or the action
StateSwitch(cur, s) ==
  CASE s = PM_DEVICE_STATE_SUSPENDED ->
         IF cur = PM_DEVICE_STATE_SUSPENDED THEN [ret |-> EALREADY, action |-> "none"]
         ELSE IF cur = PM_DEVICE_STATE_OFF THEN [ret |-> ENOTSUP, action |-> "none"]
         ELSE [ret |-> OK, action |-> "SUSPEND"]
    [] s = PM_DEVICE_STATE_ACTIVE ->
         IF cur = PM_DEVICE_STATE_ACTIVE THEN [ret |-> EALREADY, action |-> "none"]
         ELSE [ret |-> OK, action |-> "RESUME"]
    [] s = PM_DEVICE_STATE_LOW_POWER ->
         IF cur = s THEN [ret |-> EALREADY, action |-> "none"]
         ELSE [ret |-> OK, action |-> "LOW_POWER"]
    [] s = PM_DEVICE_STATE_OFF ->
         IF cur = s THEN [ret |-> EALREADY, action |-> "none"]
         ELSE [ret |-> OK, action |-> "TURN_OFF"]
    [] OTHER -> [ret |-> ENOTSUP, action |-> "none"]

\* device_supported_cb that objects to an ACTIVE dependent only
device_supported_cb_ActiveOnly(dev, target_state, st) ==
  LET g == pm_device_state_get(dev, st)
  IN IF g.ret = ENOSYS THEN EBUSY
     ELSE IF g.state = PM_DEVICE_STATE_ACTIVE THEN EBUSY
     ELSE OK

\* device_supported_cb that passes over a dependent the bulk pass skips
device_supported_cb_SkipsBusy(dev, target_state, st) ==
  LET g == pm_device_state_get(dev, st)
  IN IF pm_device_is_busy(dev) \/ pm_device_wakeup_is_enabled(dev) THEN OK
     ELSE IF g.ret = ENOSYS THEN EBUSY
     ELSE IF g.state = PM_DEVICE_STATE_ACTIVE \/ g.state # target_state THEN EBUSY
     ELSE OK

device_supported_cb(dev, target_state, st) ==
  LET g == pm_device_state_get(dev, st)
  IN IF g.ret = ENOSYS THEN EBUSY
     ELSE IF g.state = PM_DEVICE_STATE_ACTIVE \/ g.state # target_state THEN EBUSY
     ELSE OK

\* visits the devices that dev supports; the first negative return ends it
RECURSIVE supported_visit(_, _, _)
supported_visit(hs, target_state, st) ==
  IF hs = <<>> THEN OK
  ELSE LET rc == device_supported_cb(Head(hs), target_state, st)
       IN IF IsNeg(rc) THEN rc ELSE supported_visit(Tail(hs), target_state, st)

device_supported_foreach(dev, target_state, st) ==
  supported_visit(SetToSeq(supported(dev)), target_state, st)

\* The driver callback is free to return any of DrvRets at every
\* invocation, so a call has a set of possible outcomes.  An outcome is
\* [ret, st, cl]: the return value, the pm states after the call, and the
\* log of callback invocations cl extended by those of the call.
RECURSIVE pm_device_state_set(_, _, _, _)
RECURSIVE required_visit(_, _, _, _)

\* device_required_cb that ignores every error of the required device
device_required_cb_IgnoreAll(dev, target_state, st, cl) ==
  {IF IsNeg(r.ret) THEN [r EXCEPT !.ret = OK] ELSE r :
     r \in pm_device_state_set(dev, target_state, st, cl)}

device_required_cb(dev, target_state, st, cl) ==
  {IF r.ret \in {EALREADY, ENOTSUP, ENOSYS} THEN [r EXCEPT !.ret = OK] ELSE r :
     r \in pm_device_state_set(dev, target_state, st, cl)}

\* visits the devices that dev requires; the first negative return ends it
required_visit(hs, target_state, st, cl) ==
  IF hs = <<>> THEN {[ret |-> OK, st |-> st, cl |-> cl]}
  ELSE UNION {IF IsNeg(r.ret) THEN {r}
              ELSE required_visit(Tail(hs), target_state, r.st, r.cl) :
                r \in device_required_cb(Head(hs), target_state, st, cl)}

device_required_foreach(dev, target_state, st, cl) ==
  required_visit(SetToSeq(requires[dev]), target_state, st, cl)

\* the prologue without the test of dev->pm_control
state_set_prologue_NoCapTest(dev, s, st, cl) ==
  IF PM_DEVICE_FLAG_TRANSITIONING \in flags[dev]
  THEN {[ret |-> EBUSY, st |-> st, cl |-> cl, go |-> FALSE, action |-> "none"]}
  ELSE LET sw == StateSwitch(st[dev], s)
       IN IF sw.ret # OK
          THEN {[ret |-> sw.ret, st |-> st, cl |-> cl, go |-> FALSE, action |-> "none"]}
          ELSE LET deps == IF sw.action = "RESUME"
                           THEN device_required_foreach(dev, s, st, cl)
                           ELSE {[ret |-> device_supported_foreach(dev, s, st),
                                  st |-> st, cl |-> cl]}
               IN {[ret |-> dep.ret, st |-> dep.st, cl |-> dep.cl,
                    go |-> ~IsNeg(dep.ret), action |-> sw.action] : dep \in deps}

\* pm_device_state_set up to the driver callback: the capability and
\* TRANSITIONING tests, the switch, and the walk over the dependencies.
\* go: the callback is to be invoked with action.
state_set_prologue(dev, s, st, cl) ==
  IF ~pm_control[dev]
  THEN {[ret |-> ENOSYS, st |-> st, cl |-> cl, go |-> FALSE, action |-> "none"]}
  ELSE IF PM_DEVICE_FLAG_TRANSITIONING \in flags[dev]
  THEN {[ret |-> EBUSY, st |-> st, cl |-> cl, go |-> FALSE, action |-> "none"]}
  ELSE LET sw == StateSwitch(st[dev], s)
       IN IF sw.ret # OK
          THEN {[ret |-> sw.ret, st |-> st, cl |-> cl, go |-> FALSE, action |-> "none"]}
          ELSE LET deps == IF sw.action = "RESUME"
                           THEN device_required_foreach(dev, s, st, cl)
                           ELSE {[ret |-> device_supported_foreach(dev, s, st),
                                  st |-> st, cl |-> cl]}
               IN {[ret |-> dep.ret, st |-> dep.st, cl |-> dep.cl,
                    go |-> ~IsNeg(dep.ret), action |-> sw.action] : dep \in deps}

\* the epilogue that records the new state whatever the callback returned
state_set_epilogue_AlwaysWrites(dev, s, rc, st) ==
  IF IsNeg(rc) THEN [ret |-> rc, st |-> [st EXCEPT ![dev] = s]]
  ELSE [ret |-> OK, st |-> [st EXCEPT ![dev] = s]]

\* pm_device_state_set after the driver callback returned rc
state_set_epilogue(dev, s, rc, st) ==
  IF IsNeg(rc) THEN [ret |-> rc, st |-> st]
  ELSE [ret |-> OK, st |-> [st EXCEPT ![dev] = s]]

pm_device_state_set(dev, s, st, cl) ==
  UNION {IF ~p.go THEN {[ret |-> p.ret, st |-> p.st, cl |-> p.cl]}
         ELSE {LET e == state_set_epilogue(dev, s, rc, p.st)
               IN [ret |-> e.ret, st |-> e.st,
                   cl |-> Append(p.cl, [dev |-> dev, action |-> p.action, ret |-> rc])] :
                 rc \in DrvRets} :
           p \in state_set_prologue(dev, s, st, cl)}

\* the reverse walk of _pm_devices from table entry d down to the first:
\* vis logs each pm_device_state_set call, sl is the recorded list
RECURSIVE pm_devices_walk(_, _, _, _, _, _)

\* the walk without the test of the BUSY flag
pm_devices_walk_NoBusyTest(d, target, st, cl, vis, sl) ==
  IF d < 1 THEN {[ret |-> OK, st |-> st, cl |-> cl, vis |-> vis, sl |-> sl]}
  ELSE IF pm_device_wakeup_is_enabled(d)
  THEN pm_devices_walk(d - 1, target, st, cl, vis, sl)
  ELSE UNION {LET vis2 == Append(vis, [dev |-> d, ret |-> r.ret])
              IN IF r.ret \in {ENOSYS, ENOTSUP, EALREADY}
                 THEN pm_devices_walk(d - 1, target, r.st, r.cl, vis2, sl)
                 ELSE IF IsNeg(r.ret)
                 THEN {[ret |-> r.ret, st |-> r.st, cl |-> r.cl, vis |-> vis2, sl |-> sl]}
                 ELSE pm_devices_walk(d - 1, target, r.st, r.cl, vis2, Append(sl, d)) :
                r \in pm_device_state_set(d, target, st, cl)}

\* the walk that logs a hard error and goes on to the next device
pm_devices_walk_NoAbort(d, target, st, cl, vis, sl) ==
  IF d < 1 THEN {[ret |-> OK, st |-> st, cl |-> cl, vis |-> vis, sl |-> sl]}
  ELSE IF pm_device_is_busy(d) \/ pm_device_wakeup_is_enabled(d)
  THEN pm_devices_walk(d - 1, target, st, cl, vis, sl)
  ELSE UNION {LET vis2 == Append(vis, [dev |-> d, ret |-> r.ret])
              IN IF IsNeg(r.ret)
                 THEN pm_devices_walk(d - 1, target, r.st, r.cl, vis2, sl)
                 ELSE pm_devices_walk(d - 1, target, r.st, r.cl, vis2, Append(sl, d)) :
                r \in pm_device_state_set(d, target, st, cl)}

\* the walk that takes -EALREADY for a hard error
pm_devices_walk_AlreadyAborts(d, target, st, cl, vis, sl) ==
  IF d < 1 THEN {[ret |-> OK, st |-> st, cl |-> cl, vis |-> vis, sl |-> sl]}
  ELSE IF pm_device_is_busy(d) \/ pm_device_wakeup_is_enabled(d)
  THEN pm_devices_walk(d - 1, target, st, cl, vis, sl)
  ELSE UNION {LET vis2 == Append(vis, [dev |-> d, ret |-> r.ret])
              IN IF r.ret \in {ENOSYS, ENOTSUP}
                 THEN pm_devices_walk(d - 1, target, r.st, r.cl, vis2, sl)
                 ELSE IF IsNeg(r.ret)
                 THEN {[ret |-> r.ret, st |-> r.st, cl |-> r.cl, vis |-> vis2, sl |-> sl]}
                 ELSE pm_devices_walk(d - 1, target, r.st, r.cl, vis2, Append(sl, d)) :
                r \in pm_device_state_set(d, target, st, cl)}

pm_devices_walk(d, target, st, cl, vis, sl) ==
  IF d < 1 THEN {[ret |-> OK, st |-> st, cl |-> cl, vis |-> vis, sl |-> sl]}
  ELSE IF pm_device_is_busy(d) \/ pm_device_wakeup_is_enabled(d)
  THEN pm_devices_walk(d - 1, target, st, cl, vis, sl)
  ELSE UNION {LET vis2 == Append(vis, [dev |-> d, ret |-> r.ret])
              IN IF r.ret \in {ENOSYS, ENOTSUP, EALREADY}
                 THEN pm_devices_walk(d - 1, target, r.st, r.cl, vis2, sl)
                 ELSE IF IsNeg(r.ret)
                 THEN {[ret |-> r.ret, st |-> r.st, cl |-> r.cl, vis |-> vis2, sl |-> sl]}
                 ELSE pm_devices_walk(d - 1, target, r.st, r.cl, vis2, Append(sl, d)) :
                r \in pm_device_state_set(d, target, st, cl)}

\* _pm_devices without the reset of num_susp: the walk appends to the
\* list the last pass recorded
pm_devices_NoReset(target, st) ==
  pm_devices_walk(NDev, target, st, <<>>, <<>>, slots)

\* num_susp = 0, then the walk from the last table entry
pm_devices(target, st) ==
  pm_devices_walk(NDev, target, st, <<>>, <<>>, <<>>)

\* the forward walk of pm_resume_devices over the recorded list from index i
RECURSIVE resume_walk(_, _, _, _, _)
resume_walk(i, sl, st, cl, vis) ==
  IF i > Len(sl) THEN {[st |-> st, cl |-> cl, vis |-> vis]}
  ELSE UNION {resume_walk(i + 1, sl, r.st, r.cl,
                          Append(vis, [dev |-> sl[i], ret |-> r.ret])) :
                r \in pm_device_state_set(sl[i], PM_DEVICE_STATE_ACTIVE, st, cl)}

\* ----------------------------------------------------------- Spec
\* last: op, dev and target of the operation, its return value, the pm
\* states before it (old), the recorded list before it (rec), and the
\* operation that ran before it (prev)
\* the dev field of an operation that names no device
NoDev == NDev + 1
PassOps == {"pm_suspend_devices", "pm_low_power_devices"}

Last(op, dev, target, ret) ==
  [op |-> op, dev |-> dev, target |-> target, ret |-> ret,
   old |-> state, rec |-> slots, prev |-> last.op]

\* the state after boot: every device ACTIVE, no flag set but the
\* build-time WS_CAPABLE, nothing recorded
InitPM ==
  /\ pm_control \in Capabilities
  /\ requires \in Topologies
  /\ state = [d \in Devs |-> PM_DEVICE_STATE_ACTIVE]
  /\ flags = [d \in Devs |->
               IF d \in WsCapable THEN {PM_DEVICE_FLAGS_WS_CAPABLE} ELSE {}]
  /\ slots = <<>>
  /\ last = [op |-> "init", dev |-> NoDev, target |-> "none", ret |-> OK,
             old |-> state, rec |-> <<>>, prev |-> "none"]
  /\ calls = <<>>
  /\ visits = <<>>
  /\ nops = 0

\* a caller runs pm_device_state_set(dev, s) to completion
StateSet(dev, s) ==
  /\ nops < MaxOps
  /\ \E r \in pm_device_state_set(dev, s, state, <<>>) :
       /\ state' = r.st
       /\ calls' = r.cl
       /\ last' = Last("pm_device_state_set", dev, s, r.ret)
  /\ visits' = <<>>
  /\ nops' = nops + 1
  /\ UNCHANGED <<pm_control, requires, flags, slots>>

BulkPass(op, target) ==
  /\ nops < MaxOps
  /\ \E r \in pm_devices(target, state) :
       /\ state' = r.st
       /\ calls' = r.cl
       /\ visits' = r.vis
       /\ slots' = r.sl
       /\ last' = Last(op, NoDev, target, r.ret)
  /\ nops' = nops + 1
  /\ UNCHANGED <<pm_control, requires, flags>>

SuspendDevices == BulkPass("pm_suspend_devices", PM_DEVICE_STATE_SUSPENDED)

LowPowerDevices == BulkPass("pm_low_power_devices", PM_DEVICE_STATE_LOW_POWER)

ResumeDevices ==
  /\ nops < MaxOps
  /\ \E r \in resume_walk(1, slots, state, <<>>, <<>>) :
       /\ state' = r.st
       /\ calls' = r.cl
       /\ visits' = r.vis
  /\ slots' = <<>>
  /\ last' = Last("pm_resume_devices", NoDev, PM_DEVICE_STATE_ACTIVE, OK)
  /\ nops' = nops + 1
  /\ UNCHANGED <<pm_control, requires, flags>>

FlagOp(op, dev, newflags, ret) ==
  /\ nops < MaxOps
  /\ flags' = [flags EXCEPT ![dev] = newflags]
  /\ calls' = <<>>
  /\ visits' = <<>>
  /\ last' = Last(op, dev, "none", ret)
  /\ nops' = nops + 1
  /\ UNCHANGED <<pm_control, requires, state, slots>>

BusySet(dev) ==
  FlagOp("pm_device_busy_set", dev, flags[dev] \cup {PM_DEVICE_FLAG_BUSY}, OK)

BusyClear(dev) ==
  FlagOp("pm_device_busy_clear", dev, flags[dev] \ {PM_DEVICE_FLAG_BUSY}, OK)

\* atomic_get, the new flags, atomic_cas: with no other writer in between
\* the compare-and-swap succeeds
WakeupEnable(dev, enable) ==
  IF PM_DEVICE_FLAGS_WS_CAPABLE \notin flags[dev]
  THEN FlagOp("pm_device_wakeup_enable", dev, flags[dev], "false")
  ELSE FlagOp("pm_device_wakeup_enable", dev,
              IF enable THEN flags[dev] \cup {PM_DEVICE_FLAGS_WS_ENABLED}
              ELSE flags[dev] \ {PM_DEVICE_FLAGS_WS_ENABLED},
              "true")

\* atomic_get, the new flags, atomic_cas: with no other writer in between
\* the compare-and-swap succeeds
IgnoreChildrenEnable(dev, enable) ==
  FlagOp("pm_device_ignore_children_enable", dev,
         IF enable THEN flags[dev] \cup {PM_DEVICE_FLAG_IGNORE_CHILDREN}
         ELSE flags[dev] \ {PM_DEVICE_FLAG_IGNORE_CHILDREN},
         "true")

\* a caller runs pm_device_state_get(dev, &state); last.target holds the
\* state it reports ("none": *state is not written)
StateGet(dev) ==
  /\ nops < MaxOps
  /\ LET g == pm_device_state_get(dev, state)
     IN last' = Last("pm_device_state_get", dev, g.state, g.ret)
  /\ calls' = <<>>
  /\ visits' = <<>>
  /\ nops' = nops + 1
  /\ UNCHANGED <<pm_control, requires, state, flags, slots>>

\* ----------------------------------------------------------- SpecSet
\* Two threads run pm_device_state_set concurrently.  The function takes
\* no lock; a thread is observable between the end of its checks and the
\* return of the driver callback.
NThreads == 2
Threads == 1..NThreads

VARIABLES
  tpc,    \* [Threads -> {"idle", "callback"}]: where each thread is
  targ,   \* [Threads -> [dev, state, action]]: its call
  tret    \* [Threads -> return value of its last completed call]

varsSet == <<tpc, targ, tret>>

NoCall == [dev |-> NoDev, state |-> "none", action |-> "none"]

InitSet ==
  /\ tpc = [t \in Threads |-> "idle"]
  /\ targ = [t \in Threads |-> NoCall]
  /\ tret = [t \in Threads |-> "none"]

\* thread t enters pm_device_state_set(dev, s) and runs it up to the
\* invocation of dev->pm_control, or to an early return
SetBegin(t, dev, s) ==
  /\ tpc[t] = "idle"
  /\ nops < MaxOps
  /\ \E p \in state_set_prologue(dev, s, state, <<>>) :
       /\ state' = p.st
       /\ IF p.go
          THEN /\ tpc' = [tpc EXCEPT ![t] = "callback"]
               /\ targ' = [targ EXCEPT ![t] =
                             [dev |-> dev, state |-> s, action |-> p.action]]
               /\ tret' = [tret EXCEPT ![t] = "none"]
          ELSE /\ tpc' = tpc
               /\ targ' = targ
               /\ tret' = [tret EXCEPT ![t] = p.ret]
  /\ nops' = nops + 1
  /\ UNCHANGED <<pm_control, requires, flags, slots, last, calls, visits>>

\* the driver callback of thread t returns rc; the thread records the state
\* on success and returns
SetCallbackReturn(t, rc) ==
  /\ tpc[t] = "callback"
  /\ LET e == state_set_epilogue(targ[t].dev, targ[t].state, rc, state)
     IN /\ state' = e.st
        /\ tret' = [tret EXCEPT ![t] = e.ret]
  /\ tpc' = [tpc EXCEPT ![t] = "idle"]
  /\ targ' = [targ EXCEPT ![t] = NoCall]
  /\ UNCHANGED <<pm_control, requires, flags, slots, last, calls, visits, nops>>

\* ----------------------------------------------------------- SpecBulk
\* The callers of Spec, with the record of the operation before the last:
\* before.op is the operation that ran before the last one, before.prev
\* the one before that, before.rec the recorded list that one left.
VARIABLE before

varsBulk == <<before>>

InitBulk == before = last

\* ----------------------------------------------------------- SpecFlags
\* Threads run the flag operations concurrently.  pm_device_busy_set and
\* pm_device_busy_clear are one atomic bit operation; the two toggles
\* (pm_device_wakeup_enable, pm_device_ignore_children_enable) read the
\* flags with atomic_get and write them with atomic_cas, and a thread is
\* observable between the two.
\* operations made in one behaviour of SpecFlags
MaxFlagOps == 3

Toggles == {"pm_device_wakeup_enable", "pm_device_ignore_children_enable"}
\* the bit a flag operation writes
OwnBit(op) ==
  CASE op = "pm_device_wakeup_enable" -> PM_DEVICE_FLAGS_WS_ENABLED
    [] op = "pm_device_ignore_children_enable" -> PM_DEVICE_FLAG_IGNORE_CHILDREN
    [] OTHER -> PM_DEVICE_FLAG_BUSY
WrittenBits ==
  {PM_DEVICE_FLAG_BUSY, PM_DEVICE_FLAGS_WS_ENABLED, PM_DEVICE_FLAG_IGNORE_CHILDREN}

VARIABLES
  fpc,    \* [Threads -> {"idle", "cas"}]: where each thread is
  fcall,  \* [Threads -> [op, dev, enable, flags]]: the toggle a thread is
          \* in and the flags its atomic_get read
  flast,  \* the flag operation that returned last: its call, what it
          \* returned, and the flags of its device it met (cur)
  fwant   \* [Devs -> SUBSET WrittenBits]: the bits as the flag operations
          \* that took effect last left them

varsFlags == <<fpc, fcall, flast, fwant>>

NoFlagCall == [op |-> "none", dev |-> NoDev, enable |-> FALSE, flags |-> {}]

InitFlags ==
  /\ fpc = [t \in Threads |-> "idle"]
  /\ fcall = [t \in Threads |-> NoFlagCall]
  /\ flast = [call |-> NoFlagCall, ret |-> "none", cur |-> {}]
  /\ fwant = [d \in Devs |-> {}]

\* new_flags of the two toggles
toggle_new_flags(bit, f, enable) == IF enable THEN f \cup {bit} ELSE f \ {bit}

\* atomic_cas that stores without comparing
atomic_cas_Store(cur, old, new) == [ok |-> TRUE, val |-> new]

\* atomic_cas(&dev->pm->flags, flags, new_flags): the value found is cur
atomic_cas(cur, old, new) ==
  [ok |-> cur = old, val |-> IF cur = old THEN new ELSE cur]

\* thread t runs pm_device_busy_set(dev) / pm_device_busy_clear(dev)
BusyOp(t, dev, set) ==
  /\ fpc[t] = "idle"
  /\ nops < MaxFlagOps
  /\ flags' = [flags EXCEPT ![dev] =
                IF set THEN @ \cup {PM_DEVICE_FLAG_BUSY} ELSE @ \ {PM_DEVICE_FLAG_BUSY}]
  /\ fwant' = [fwant EXCEPT ![dev] =
                IF set THEN @ \cup {PM_DEVICE_FLAG_BUSY} ELSE @ \ {PM_DEVICE_FLAG_BUSY}]
  /\ flast' = [call |-> [op |-> IF set THEN "pm_device_busy_set"
                                 ELSE "pm_device_busy_clear",
                          dev |-> dev, enable |-> set, flags |-> flags[dev]],
                ret |-> "none", cur |-> flags[dev]]
  /\ nops' = nops + 1
  /\ UNCHANGED <<fpc, fcall, pm_control, requires, state, slots, last, calls, visits>>

\* thread t enters a toggle: atomic_get, and for pm_device_wakeup_enable
\* the return of false for a device that is not WS_CAPABLE.  The threads
\* are interchangeable: the call is made by the first thread that is free.
ToggleGet(t, op, dev, enable) ==
  /\ fpc[t] = "idle"
  /\ \A u \in Threads : u < t => fpc[u] # "idle"
  /\ nops < MaxFlagOps
  /\ LET c == [op |-> op, dev |-> dev, enable |-> enable, flags |-> flags[dev]]
     IN IF op = "pm_device_wakeup_enable" /\ PM_DEVICE_FLAGS_WS_CAPABLE \notin flags[dev]
        THEN /\ flast' = [call |-> c, ret |-> "false", cur |-> flags[dev]]
             /\ UNCHANGED <<fpc, fcall>>
        ELSE /\ fcall' = [fcall EXCEPT ![t] = c]
             /\ fpc' = [fpc EXCEPT ![t] = "cas"]
             /\ flast' = flast
  /\ nops' = nops + 1
  /\ UNCHANGED <<fwant, pm_control, requires, state, flags, slots, last, calls, visits>>

\* thread t computes new_flags from the flags it read and returns the
\* result of atomic_cas
ToggleCas(t) ==
  /\ fpc[t] = "cas"
  /\ LET c == fcall[t]
         bit == OwnBit(c.op)
         r == atomic_cas(flags[c.dev], c.flags, toggle_new_flags(bit, c.flags, c.enable))
     IN /\ flags' = [flags EXCEPT ![c.dev] = r.val]
        /\ flast' = [call |-> c, ret |-> IF r.ok THEN "true" ELSE "false",
                      cur |-> flags[c.dev]]
        /\ fwant' = IF r.ok
                    THEN [fwant EXCEPT ![c.dev] = toggle_new_flags(bit, @, c.enable)]
                    ELSE fwant
  /\ fpc' = [fpc EXCEPT ![t] = "idle"]
  /\ fcall' = [fcall EXCEPT ![t] = NoFlagCall]
  /\ UNCHANGED <<pm_control, requires, state, slots, last, calls, visits, nops>>

\* ----------------------------------------------------------- SpecDom
\* The power-domain tests.  tests/subsys/pm/power_domain: a domain device
\* (pm_action_domain) and its dependents (pm_action) under the runtime PM
\* of pm_device_runtime_get/put, which together with
\* pm_device_children_action_run is modelled from the design (the
\* usage-counted get/put, the domain's count held by its dependents).
\* tests/subsys/pm/power_domain_soc_state_change: one device (dev_pm_action)
\* under a domain driven by the SoC power state, with the test's policy.
\* dependents of the domain (test_dev_a, test_dev_b, devc)
NDependents == 3
\* get/put calls, counter settings and idle steps made in one behaviour
MaxDomOps == 6

Dependents == 1..NDependents
test_domain == NDependents + 1
DomDevs == Dependents \cup {test_domain}
NoDomDev == NDependents + 2

PM_STATE_STANDBY == "STANDBY"
PM_STATE_SUSPEND_TO_IDLE == "SUSPEND_TO_IDLE"
PM_STATE_RUNTIME_IDLE == "RUNTIME_IDLE"
\* the power states of the CPU, in the order of pm_state_cpu_get_all
cpu_states == <<PM_STATE_STANDBY, PM_STATE_SUSPEND_TO_IDLE, PM_STATE_RUNTIME_IDLE>>
\* the power states the device tree lists as ON/OFF states of the domain
OnOffStates == {PM_STATE_STANDBY, PM_STATE_SUSPEND_TO_IDLE}

VARIABLES
  dstate,      \* [DomDevs -> pm state]
  dusage,      \* [DomDevs -> usage count of runtime PM]
  ddirect,     \* gets minus puts made on the domain itself
  on_notif,    \* testing_domain_on_notitication of power_domain
  off_notif,   \* testing_domain_off_notitication of power_domain
  dlast,       \* the last get/put: op, dev, ret, the states and usage
               \* before it, the actions it delivered to dependents
  soc,         \* the idle loop: phase "run"/"idle", power state, assertion
  soc_on,      \* testing_domain_on_notitication of power_domain_soc_state_change
  soc_off,     \* testing_domain_off_notitication of the same test
  soc_cycle,   \* the idle cycle entered last: its state, the counters before
               \* it, the number of cycles through a listed state so far
  dops         \* steps made so far

varsDom ==
  <<dstate, dusage, ddirect, on_notif, off_notif, dlast, soc, soc_on, soc_off,
    soc_cycle, dops>>

InitDom ==
  /\ dstate = [d \in DomDevs |-> PM_DEVICE_STATE_SUSPENDED]
  /\ dusage = [d \in DomDevs |-> 0]
  /\ ddirect = 0
  /\ on_notif = 0
  /\ off_notif = 0
  /\ dlast = [op |-> "init", dev |-> NoDomDev, ret |-> OK, old |-> dstate,
              oldusage |-> dusage, notif |-> <<>>, on0 |-> 0, off0 |-> 0]
  /\ soc = [phase |-> "run", state |-> "none", assert_ok |-> TRUE]
  /\ soc_on = 0
  /\ soc_off = 0
  /\ soc_cycle = [state |-> "none", on0 |-> 0, off0 |-> 0, listed |-> 0]
  /\ dops = 0

\* pm_action_domain that has no case for PM_DEVICE_ACTION_RESUME
pm_action_domain_NoResume(action) ==
  CASE action = "SUSPEND" -> [rc |-> OK, children |-> "TURN_OFF"]
    [] action \in {"TURN_ON", "TURN_OFF"} -> [rc |-> OK, children |-> "none"]
    [] OTHER -> [rc |-> ENOTSUP, children |-> "none"]

\* pm_action_domain that does not run TURN_OFF on the children
pm_action_domain_NoTurnOff(action) ==
  CASE action = "RESUME" -> [rc |-> OK, children |-> "TURN_ON"]
    [] action = "SUSPEND" -> [rc |-> OK, children |-> "none"]
    [] action \in {"TURN_ON", "TURN_OFF"} -> [rc |-> OK, children |-> "none"]
    [] OTHER -> [rc |-> ENOTSUP, children |-> "none"]

\* the domain's callback: its return value and the action it runs on the
\* children
pm_action_domain(action) ==
  CASE action = "RESUME" -> [rc |-> OK, children |-> "TURN_ON"]
    [] action = "SUSPEND" -> [rc |-> OK, children |-> "TURN_OFF"]
    [] action \in {"TURN_ON", "TURN_OFF"} -> [rc |-> OK, children |-> "none"]
    [] OTHER -> [rc |-> ENOTSUP, children |-> "none"]

\* a dependent's callback: the two counters after it; it returns 0
pm_action(action, c) ==
  IF c.on > 0
  THEN IF action = "TURN_ON" THEN [c EXCEPT !.on = @ - 1] ELSE c
  ELSE IF c.off > 0
  THEN IF action = "TURN_OFF" THEN [c EXCEPT !.off = @ - 1] ELSE c
  ELSE c

\* the action runs on every dependent of the domain, in table order; c
\* carries the counters and the log of the delivered actions
RECURSIVE children_visit(_, _, _)
children_visit(ds, action, c) ==
  IF ds = <<>> THEN c
  ELSE LET c1 == pm_action(action, c)
       IN children_visit(Tail(ds), action,
                         [c1 EXCEPT !.notif = Append(@, [dev |-> Head(ds),
                                                         action |-> action])])

pm_device_children_action_run(action, c) ==
  IF action = "none" THEN c
  ELSE children_visit(SetToSeq(Dependents), action, c)

\* the callback of dev runs action: [rc, c]
run_callback(dev, action, c) ==
  IF dev = test_domain
  THEN LET r == pm_action_domain(action)
       IN [rc |-> r.rc, c |-> pm_device_children_action_run(r.children, c)]
  ELSE [rc |-> OK, c |-> pm_action(action, c)]

\* c: [st, us, on, off, notif].  A get increments the usage count; on the
\* 0 -> 1 edge the device's domain is taken first and the device resumed.
domain_get(c) ==
  IF c.us[test_domain] > 0
  THEN [ret |-> OK, c |-> [c EXCEPT !.us[test_domain] = @ + 1]]
  ELSE LET r == run_callback(test_domain, "RESUME", c)
       IN IF IsNeg(r.rc) THEN [ret |-> r.rc, c |-> c]
          ELSE [ret |-> OK,
                c |-> [r.c EXCEPT !.us[test_domain] = 1,
                                  !.st[test_domain] = PM_DEVICE_STATE_ACTIVE]]

\* A put decrements the usage count; on the 1 -> 0 edge the device is
\* suspended and its domain released.  A put without a get is refused.
domain_put(c) ==
  IF c.us[test_domain] = 0 THEN [ret |-> EALREADY, c |-> c]
  ELSE IF c.us[test_domain] > 1
  THEN [ret |-> OK, c |-> [c EXCEPT !.us[test_domain] = @ - 1]]
  ELSE LET r == run_callback(test_domain, "SUSPEND", c)
       IN IF IsNeg(r.rc) THEN [ret |-> r.rc, c |-> c]
          ELSE [ret |-> OK,
                c |-> [r.c EXCEPT !.us[test_domain] = 0,
                                  !.st[test_domain] = PM_DEVICE_STATE_SUSPENDED]]

pm_device_runtime_get(dev, c) ==
  IF dev = test_domain THEN domain_get(c)
  ELSE IF c.us[dev] > 0 THEN [ret |-> OK, c |-> [c EXCEPT !.us[dev] = @ + 1]]
  ELSE LET g == domain_get(c)
       IN IF IsNeg(g.ret) THEN [ret |-> g.ret, c |-> c]
          ELSE LET r == run_callback(dev, "RESUME", g.c)
               IN [ret |-> OK,
                   c |-> [r.c EXCEPT !.us[dev] = 1,
                                     !.st[dev] = PM_DEVICE_STATE_ACTIVE]]

pm_device_runtime_put(dev, c) ==
  IF dev = test_domain THEN domain_put(c)
  ELSE IF c.us[dev] = 0 THEN [ret |-> EALREADY, c |-> c]
  ELSE IF c.us[dev] > 1 THEN [ret |-> OK, c |-> [c EXCEPT !.us[dev] = @ - 1]]
  ELSE LET r == run_callback(dev, "SUSPEND", c)
           c1 == [r.c EXCEPT !.us[dev] = 0,
                             !.st[dev] = PM_DEVICE_STATE_SUSPENDED]
           q == domain_put(c1)
       IN [ret |-> q.ret, c |-> q.c]

DomCtx == [st |-> dstate, us |-> dusage, on |-> on_notif, off |-> off_notif,
           notif |-> <<>>]

DomCall(op, dev, r) ==
  /\ dops < MaxDomOps
  /\ dstate' = r.c.st
  /\ dusage' = r.c.us
  /\ on_notif' = r.c.on
  /\ off_notif' = r.c.off
  /\ dlast' = [op |-> op, dev |-> dev, ret |-> r.ret, old |-> dstate,
               oldusage |-> dusage, notif |-> r.c.notif,
               on0 |-> on_notif, off0 |-> off_notif]
  /\ dops' = dops + 1
  /\ UNCHANGED <<soc, soc_on, soc_off, soc_cycle>>

RuntimeGet(dev) ==
  /\ DomCall("pm_device_runtime_get", dev, pm_device_runtime_get(dev, DomCtx))
  /\ ddirect' = IF dev = test_domain /\ dusage'[dev] # dusage[dev]
                THEN ddirect + 1 ELSE ddirect

\* a caller puts on the domain itself only a reference it took on it
RuntimePut(dev) ==
  /\ dev = test_domain => ddirect > 0
  /\ DomCall("pm_device_runtime_put", dev, pm_device_runtime_put(dev, DomCtx))
  /\ ddirect' = IF dev = test_domain /\ dusage'[dev] # dusage[dev]
                THEN ddirect - 1 ELSE ddirect

\* the test sets one of its counters to the number of dependents
ArmNotification(which) ==
  /\ dops < MaxDomOps
  /\ on_notif' = IF which = "on" THEN NDependents ELSE on_notif
  /\ off_notif' = IF which = "off" THEN NDependents ELSE off_notif
  /\ dlast' = [op |-> "set counter", dev |-> NoDomDev, ret |-> OK, old |-> dstate,
               oldusage |-> dusage, notif |-> <<>>,
               on0 |-> on_notif, off0 |-> off_notif]
  /\ dops' = dops + 1
  /\ UNCHANGED <<dstate, dusage, ddirect, soc, soc_on, soc_off, soc_cycle>>

\* dev_pm_action that counts any action as a TURN_ON
dev_pm_action_CountsAll(action, c) ==
  LET c1 == [c EXCEPT !.on = @ + 1]
  IN IF action = "TURN_OFF" THEN [c1 EXCEPT !.off = @ + 1] ELSE c1

\* the device's callback of power_domain_soc_state_change: the two
\* counters after it; it returns 0
dev_pm_action(action, c) ==
  LET c1 == IF action = "TURN_ON" THEN [c EXCEPT !.on = @ + 1] ELSE c
  IN IF action = "TURN_OFF" THEN [c1 EXCEPT !.off = @ + 1] ELSE c1

\* the test's policy: the power state of the next idle cycle, "none" for NULL
pm_policy_next_state(on) ==
  IF on = 0 THEN cpu_states[1]
  ELSE IF on = 1 THEN cpu_states[2]
  ELSE IF on = 2 THEN cpu_states[3]
  ELSE "none"

\* the assertions of the test's pm_state_set
pm_state_set(st, off) ==
  CASE off = 1 -> st = PM_STATE_STANDBY
    [] off = 2 -> st \in {PM_STATE_SUSPEND_TO_IDLE, PM_STATE_RUNTIME_IDLE}
    [] OTHER -> TRUE

\* the system goes idle: the policy picks the power state, the domain
\* turns its device off when the state is one of its ON/OFF states, and
\* pm_state_set enters the state
IdleEnter ==
  /\ dops < MaxDomOps
  /\ soc.phase = "run"
  /\ LET st == pm_policy_next_state(soc_on)
         c == IF st \in OnOffStates
              THEN dev_pm_action("TURN_OFF", [on |-> soc_on, off |-> soc_off])
              ELSE [on |-> soc_on, off |-> soc_off]
     IN /\ st # "none"
        /\ soc_on' = c.on
        /\ soc_off' = c.off
        /\ soc' = [phase |-> "idle", state |-> st,
                   assert_ok |-> soc.assert_ok /\ pm_state_set(st, c.off)]
        /\ soc_cycle' = [state |-> st, on0 |-> soc_on, off0 |-> soc_off,
                         listed |-> IF st \in OnOffStates THEN soc_cycle.listed + 1
                                    ELSE soc_cycle.listed]
  /\ dops' = dops + 1
  /\ UNCHANGED <<dstate, dusage, ddirect, on_notif, off_notif, dlast>>

\* the system wakes up: the domain turns its device on again when the
\* state left is one of its ON/OFF states
IdleExit ==
  /\ dops < MaxDomOps
  /\ soc.phase = "idle"
  /\ LET c == IF soc.state \in OnOffStates
              THEN dev_pm_action("TURN_ON", [on |-> soc_on, off |-> soc_off])
              ELSE [on |-> soc_on, off |-> soc_off]
     IN /\ soc_on' = c.on
        /\ soc_off' = c.off
  /\ soc' = [soc EXCEPT !.phase = "run"]
  /\ dops' = dops + 1
  /\ UNCHANGED <<dstate, dusage, ddirect, on_notif, off_notif, dlast, soc_cycle>>

\* ----------------------------------------------------------- SpecRT
\* subsys/power/device_pm.c for one device.  Threads call
\* device_pm_get/get_sync/put/put_sync; the driver confirms each requested
\* transition by device_pm_callback, inside device_set_power_state or
\* later from its own context.  dev->pm->lock is modelled as an exclusive
\* lock (a build whose spinlock excludes other contexts); the completion
\* callback takes no lock.
\* requests made in one behaviour
MaxReq == 4

DEVICE_PM_ACTIVE_STATE == "ACTIVE"
DEVICE_PM_SUSPEND_STATE == "SUSPEND"
DEVICE_PM_RESUMING_STATE == "RESUMING"
DEVICE_PM_SUSPENDING_STATE == "SUSPENDING"
NoThread == NThreads + 1

VARIABLES
  usage,       \* dev->pm->usage
  fsm_state,   \* dev->pm->fsm_state
  lock,        \* the threads holding dev->pm->lock: none or one
  pre_kernel,  \* k_is_pre_kernel()
  pending,     \* transitions the driver was asked for and has not confirmed
  rpc,         \* [Threads -> position inside device_pm_request]
  rreq,        \* [Threads -> [target, sync]] of the call in progress
  rret,        \* [Threads -> return value of the last completed call]
  rlast,       \* the last call that entered: FSM state it found, usage
               \* before/after, requests
  nreq         \* calls entered so far

varsRT ==
  <<usage, fsm_state, lock, pre_kernel, pending, rpc, rreq, rret, rlast, nreq>>

vars == <<varsPM, varsSet, varsRT, varsDom, varsBulk, varsFlags>>

InitRT ==
  /\ usage = 0
  /\ fsm_state = DEVICE_PM_ACTIVE_STATE
  /\ lock = {}
  /\ pre_kernel = TRUE
  /\ pending = <<>>
  /\ rpc = [t \in Threads |-> "idle"]
  /\ rreq = [t \in Threads |-> [target |-> "none", sync |-> FALSE]]
  /\ rret = [t \in Threads |-> "none"]
  /\ rlast = [thread |-> NoThread, target |-> "none", sync |-> FALSE,
              fsm |-> "none", from |-> 0, to |-> 0, req |-> <<>>]
  /\ nreq = 0

\* device_pm_callback(dev, 0, &st): [fsm_state, rpc] after it
device_pm_callback(st, pcs, prek) ==
  [fsm |-> st,
   pcs |-> IF prek THEN pcs
           ELSE [t \in Threads |-> IF pcs[t] = "wait" THEN "woken" ELSE pcs[t]]]

\* device_set_power_state(dev, st, device_pm_callback, NULL): the driver
\* confirms inline or queues the confirmation
device_set_power_state(st, inline, fsm, pcs, pend, prek) ==
  IF inline
  THEN LET c == device_pm_callback(st, pcs, prek)
       IN [fsm |-> c.fsm, pcs |-> c.pcs, pend |-> pend]
  ELSE [fsm |-> fsm, pcs |-> pcs, pend |-> Append(pend, st)]

\* the switch of device_pm_request on the FSM state, with the usage
\* count already updated to u: the state to request, or "none"
RequestSwitch(fsm, u) ==
  IF fsm \in {DEVICE_PM_RESUMING_STATE, DEVICE_PM_ACTIVE_STATE}
  THEN IF u = 0 THEN DEVICE_PM_SUSPEND_STATE ELSE "none"
  ELSE IF fsm \in {DEVICE_PM_SUSPENDING_STATE, DEVICE_PM_SUSPEND_STATE}
  THEN IF u = 1 THEN DEVICE_PM_ACTIVE_STATE ELSE "none"
  ELSE "none"

Transitional(st) ==
  IF st = DEVICE_PM_SUSPEND_STATE THEN DEVICE_PM_SUSPENDING_STATE
  ELSE DEVICE_PM_RESUMING_STATE

\* k_spin_lock, the usage update and the switch
RequestEnter(t, target_state, sync, inline) ==
  /\ rpc[t] = "idle"
  /\ lock = {}
  /\ nreq < MaxReq
  /\ pre_kernel => t = 1
  /\ LET u == IF target_state = DEVICE_PM_ACTIVE_STATE THEN usage + 1 ELSE usage - 1
         want == RequestSwitch(fsm_state, u)
         pcs == [rpc EXCEPT ![t] = "locked"]
         d == IF want = "none"
              THEN [fsm |-> fsm_state, pcs |-> pcs, pend |-> pending]
              ELSE device_set_power_state(want, inline, Transitional(want),
                                          pcs, pending, pre_kernel)
     IN /\ usage' = u
        /\ fsm_state' = d.fsm
        /\ rpc' = d.pcs
        /\ pending' = d.pend
        /\ rlast' = [thread |-> t, target |-> target_state, sync |-> sync,
                     fsm |-> fsm_state, from |-> usage, to |-> u,
                     req |-> IF want = "none" THEN <<>> ELSE <<want>>]
  /\ lock' = {t}
  /\ rreq' = [rreq EXCEPT ![t] = [target |-> target_state, sync |-> sync]]
  /\ rret' = [rret EXCEPT ![t] = "none"]
  /\ nreq' = nreq + 1
  /\ UNCHANGED <<pre_kernel, varsPM, varsSet, varsDom, varsBulk, varsFlags>>

\* the test of the FSM state after the switch: goto end, the async return,
\* the pre-kernel return, or on to the wait on the condition variable
RequestCheck(t, inline) ==
  /\ rpc[t] = "locked"
  /\ IF fsm_state \in {DEVICE_PM_ACTIVE_STATE, DEVICE_PM_SUSPEND_STATE}
     THEN /\ rpc' = [rpc EXCEPT ![t] = "end"]
          /\ UNCHANGED <<fsm_state, pending, lock, rret, rlast>>
     ELSE IF ~rreq[t].sync
     THEN /\ lock' = {}
          /\ rret' = [rret EXCEPT ![t] = "1"]
          /\ rpc' = [rpc EXCEPT ![t] = "idle"]
          /\ UNCHANGED <<fsm_state, pending, rlast>>
     ELSE IF pre_kernel
     THEN LET d == device_set_power_state(DEVICE_PM_ACTIVE_STATE, inline, fsm_state,
                                          [rpc EXCEPT ![t] = "idle"], pending,
                                          pre_kernel)
          IN /\ fsm_state' = d.fsm
             /\ rpc' = d.pcs
             /\ pending' = d.pend
             /\ rret' = [rret EXCEPT ![t] = OK]
             /\ rlast' = [rlast EXCEPT !.req = Append(@, DEVICE_PM_ACTIVE_STATE)]
             /\ UNCHANGED lock
     ELSE /\ rpc' = [rpc EXCEPT ![t] = "towait"]
          /\ UNCHANGED <<fsm_state, pending, lock, rret, rlast>>
  /\ UNCHANGED <<usage, pre_kernel, rreq, nreq, varsPM, varsSet, varsDom, varsBulk, varsFlags>>

\* k_mutex_init, k_mutex_lock of the local request_mutex and k_condvar_wait:
\* the thread parks until the next broadcast; dev->pm->lock stays as it is
RequestWait(t) ==
  /\ rpc[t] = "towait"
  /\ rpc' = [rpc EXCEPT ![t] = "wait"]
  /\ UNCHANGED <<usage, fsm_state, lock, pre_kernel, pending, rreq, rret, rlast,
                 nreq, varsPM, varsSet, varsDom, varsBulk, varsFlags>>

\* end: k_spin_unlock
RequestUnlock(t) ==
  /\ rpc[t] \in {"end", "woken"}
  /\ lock' = lock \ {t}
  /\ rpc' = [rpc EXCEPT ![t] = "ret"]
  /\ UNCHANGED <<usage, fsm_state, pre_kernel, pending, rreq, rret, rlast, nreq,
                 varsPM, varsSet, varsDom, varsBulk, varsFlags>>

\* return target_state == atomic_get(&dev->pm->fsm_state) ? 0 : -EIO
RequestReturn(t) ==
  /\ rpc[t] = "ret"
  /\ rret' = [rret EXCEPT ![t] =
                IF rreq[t].target = fsm_state THEN OK ELSE EIO]
  /\ rpc' = [rpc EXCEPT ![t] = "idle"]
  /\ UNCHANGED <<usage, fsm_state, lock, pre_kernel, pending, rreq, rlast, nreq,
                 varsPM, varsSet, varsDom, varsBulk, varsFlags>>

\* the driver confirms the oldest transition it was asked for
DeliverCallback ==
  /\ pending # <<>>
  /\ LET c == device_pm_callback(Head(pending), rpc, pre_kernel)
     IN /\ fsm_state' = c.fsm
        /\ rpc' = c.pcs
  /\ pending' = Tail(pending)
  /\ UNCHANGED <<usage, lock, pre_kernel, rreq, rret, rlast, nreq, varsPM, varsSet, varsDom, varsBulk, varsFlags>>

\* the scheduler starts: threads other than the boot context may run
SchedulerStart ==
  /\ pre_kernel
  /\ \A t \in Threads : rpc[t] = "idle"
  /\ pre_kernel' = FALSE
  /\ UNCHANGED <<usage, fsm_state, lock, pending, rpc, rreq, rret, rlast, nreq,
                 varsPM, varsSet, varsDom, varsBulk, varsFlags>>

\* ------------------------------------------------------ specifications
Init == InitPM /\ InitSet /\ InitRT /\ InitDom /\ InitBulk /\ InitFlags

DoStateSet == \E dev \in Devs, s \in Targets : StateSet(dev, s)
DoBusySet == \E dev \in Devs : BusySet(dev)
DoBusyClear == \E dev \in Devs : BusyClear(dev)
DoWakeupEnable == \E dev \in Devs, enable \in BOOLEAN : WakeupEnable(dev, enable)

NextPM ==
  /\ \/ DoStateSet
     \/ SuspendDevices
     \/ LowPowerDevices
     \/ ResumeDevices
     \/ DoBusySet
     \/ DoBusyClear
     \/ DoWakeupEnable
  /\ UNCHANGED <<varsSet, varsRT, varsDom, varsBulk, varsFlags>>

Spec == Init /\ [][NextPM]_vars

\* SpecBulk: the callers of Spec, remembering the operation before the last
NextBulk ==
  /\ \/ DoStateSet
     \/ SuspendDevices
     \/ LowPowerDevices
     \/ ResumeDevices
     \/ DoBusySet
     \/ DoBusyClear
     \/ DoWakeupEnable
  /\ before' = last
  /\ UNCHANGED <<varsSet, varsRT, varsDom, varsFlags>>

SpecBulk == Init /\ [][NextBulk]_vars

\* SpecFlags: threads inside the flag operations
DoBusyOp == \E t \in Threads, dev \in Devs, set \in BOOLEAN : BusyOp(t, dev, set)
DoToggleGet ==
  \E t \in Threads, op \in Toggles, dev \in Devs, enable \in BOOLEAN :
    ToggleGet(t, op, dev, enable)
DoToggleCas == \E t \in Threads : ToggleCas(t)

NextFlags ==
  /\ \/ DoBusyOp
     \/ DoToggleGet
     \/ DoToggleCas
  /\ UNCHANGED <<varsSet, varsRT, varsDom, varsBulk>>

SpecFlags == Init /\ [][NextFlags]_vars

\* SpecDep: sequential callers of pm_device_state_set, pm_device_state_get
\* and pm_device_ignore_children_enable, over every assignment of
\* pm_control callbacks to the devices of the table
InitDep ==
  /\ pm_control \in [Devs -> BOOLEAN]
  /\ requires \in Topologies
  /\ state = [d \in Devs |-> PM_DEVICE_STATE_ACTIVE]
  /\ flags = [d \in Devs |->
               IF d \in WsCapable THEN {PM_DEVICE_FLAGS_WS_CAPABLE} ELSE {}]
  /\ slots = <<>>
  /\ last = [op |-> "init", dev |-> NoDev, target |-> "none", ret |-> OK,
             old |-> state, rec |-> <<>>, prev |-> "none"]
  /\ calls = <<>>
  /\ visits = <<>>
  /\ nops = 0
  /\ InitSet
  /\ InitRT
  /\ InitDom
  /\ InitBulk
  /\ InitFlags

DoStateGet == \E dev \in Devs : StateGet(dev)
DoIgnoreChildrenEnable ==
  \E dev \in Devs, enable \in BOOLEAN : IgnoreChildrenEnable(dev, enable)

NextDep ==
  /\ \/ DoStateSet
     \/ DoStateGet
     \/ DoIgnoreChildrenEnable
  /\ UNCHANGED <<varsSet, varsRT, varsDom, varsBulk, varsFlags>>

SpecDep == InitDep /\ [][NextDep]_vars

\* SpecDom: the calls and idle cycles of the two power-domain tests
DoRuntimeGet == \E dev \in DomDevs : RuntimeGet(dev)
DoRuntimePut == \E dev \in DomDevs : RuntimePut(dev)
DoArmNotification == \E which \in {"on", "off"} : ArmNotification(which)

NextDom ==
  /\ \/ DoRuntimeGet
     \/ DoRuntimePut
     \/ DoArmNotification
     \/ IdleEnter
     \/ IdleExit
  /\ UNCHANGED <<varsPM, varsSet, varsRT, varsBulk, varsFlags>>

SpecDom == Init /\ [][NextDom]_vars

DoSetBegin ==
  \E t \in Threads, dev \in Devs, s \in Targets : SetBegin(t, dev, s)
DoSetCallbackReturn == \E t \in Threads, rc \in DrvRets : SetCallbackReturn(t, rc)

NextSet ==
  /\ \/ DoSetBegin
     \/ DoSetCallbackReturn
  /\ UNCHANGED <<varsRT, varsDom, varsBulk, varsFlags>>

SpecSet == Init /\ [][NextSet]_vars

DoRequestEnter ==
  \E t \in Threads, target_state \in {DEVICE_PM_ACTIVE_STATE, DEVICE_PM_SUSPEND_STATE},
     sync \in BOOLEAN, inline \in BOOLEAN :
    RequestEnter(t, target_state, sync, inline)
DoRequestCheck == \E t \in Threads, inline \in BOOLEAN : RequestCheck(t, inline)
DoRequestWait == \E t \in Threads : RequestWait(t)
DoRequestUnlock == \E t \in Threads : RequestUnlock(t)
DoRequestReturn == \E t \in Threads : RequestReturn(t)

NextRT ==
  \/ DoRequestEnter
  \/ DoRequestCheck
  \/ DoRequestWait
  \/ DoRequestUnlock
  \/ DoRequestReturn
  \/ DeliverCallback
  \/ SchedulerStart

SpecRT == Init /\ [][NextRT]_vars

\* SpecRT with the progress the scheduler and the driver give: a thread
\* inside device_pm_request that can run does run, and the driver confirms
\* every transition it was asked for
SpecRTLive ==
  /\ SpecRT
  /\ \A t \in Threads :
       /\ WF_vars(\E inline \in BOOLEAN : RequestCheck(t, inline))
       /\ WF_vars(RequestWait(t))
       /\ WF_vars(RequestUnlock(t))
       /\ WF_vars(RequestReturn(t))
  /\ WF_vars(DeliverCallback)

\* ------------------------------------------------------------ claims
Range(f) == {f[i] : i \in DOMAIN f}
SoftErrors == {ENOSYS, ENOTSUP, EALREADY}
IsSetCall == last.op = "pm_device_state_set"
IsPass == last.op \in PassOps
\* positions in the callback log where dev's callback ran action and succeeded
Done(cl, dev, action) ==
  {i \in DOMAIN cl : cl[i].dev = dev /\ cl[i].action = action /\ cl[i].ret = OK}
\* the devices the bulk pass does not skip as busy or wakeup-enabled
Eligible == {d \in Devs : ~pm_device_is_busy(d) /\ ~pm_device_wakeup_is_enabled(d)}

\* C1 as stated: pm_device_state_set(dev, s) on a device whose state is
\* already s returns -EALREADY, invokes no callback and changes no state.
C1_AsStated ==
  (IsSetCall /\ last.target \in PmStates /\ last.old[last.dev] = last.target)
    => (last.ret = EALREADY /\ calls = <<>> /\ state = last.old)

\* C1 amended: the same for a device that has a pm_control callback and
\* whose TRANSITIONING flag is clear.
C1_Idempotent ==
  (/\ IsSetCall
   /\ last.target \in PmStates
   /\ last.old[last.dev] = last.target
   /\ pm_control[last.dev]
   /\ PM_DEVICE_FLAG_TRANSITIONING \notin flags[last.dev])
    => (last.ret = EALREADY /\ calls = <<>> /\ state = last.old)

C1_Witness ==
  /\ IsSetCall
  /\ pm_control[last.dev]
  /\ last.target \in PmStates \ {PM_DEVICE_STATE_ACTIVE}
  /\ last.old[last.dev] = last.target
  /\ last.ret = EALREADY

\* C6 as stated: when a bulk suspend pass suspends two PM-capable devices
\* A and B with A requiring B, A's SUSPEND callback succeeds before B's;
\* and when the pm_resume_devices that follows that pass resumes both,
\* B's RESUME callback succeeds before A's.
C6_AsStated ==
  \A A \in Devs : \A B \in requires[A] :
    (pm_control[A] /\ pm_control[B]) =>
      /\ last.op = "pm_suspend_devices" =>
           \A i \in Done(calls, A, "SUSPEND") : \A j \in Done(calls, B, "SUSPEND") :
             i < j
      /\ (/\ last.op = "pm_resume_devices"
          /\ last.prev = "pm_suspend_devices"
          /\ {A, B} \subseteq Range(last.rec)) =>
           \A i \in Done(calls, A, "RESUME") : \A j \in Done(calls, B, "RESUME") :
             j < i

\* C7 as stated, for a resume in which every driver callback succeeded:
\* the devices pm_resume_devices brings to ACTIVE are exactly the devices
\* the pm_suspend_devices just before it recorded as suspended.
C7_AsStated ==
  (/\ last.op = "pm_resume_devices"
   /\ last.prev = "pm_suspend_devices"
   /\ \A i \in DOMAIN calls : calls[i].ret = OK)
    => {d \in Devs : Done(calls, d, "RESUME") # {}} = Range(last.rec)

\* C8 as stated: after pm_suspend_devices no device with BUSY set is
\* SUSPENDED.
C8_AsStated ==
  last.op = "pm_suspend_devices" =>
    \A d \in Devs : pm_device_is_busy(d) => state[d] # PM_DEVICE_STATE_SUSPENDED

\* C8 amended: pm_suspend_devices never transitions a device with BUSY
\* set: its callback is not invoked and its state is what it was before
\* the pass, so it is SUSPENDED afterwards only if it was before.
C8_BusyUntouched ==
  last.op = "pm_suspend_devices" =>
    \A d \in Devs :
      pm_device_is_busy(d) =>
        /\ state[d] = last.old[d]
        /\ \A i \in DOMAIN calls : calls[i].dev # d
        /\ d \notin Range(slots)

C8_Witness ==
  /\ last.op = "pm_suspend_devices"
  /\ slots # <<>>
  /\ \E d \in Devs :
       /\ pm_control[d]
       /\ pm_device_is_busy(d)
       /\ state[d] # PM_DEVICE_STATE_SUSPENDED

\* C9: a bulk pass that meets a hard error (negative, not ENOSYS, ENOTSUP
\* or EALREADY) stops there: the hard error is the last call of the pass
\* and the pass's return value, and no device before it in the table is
\* visited, has its callback invoked or changes state.
C9_HardErrorAborts ==
  IsPass =>
    /\ \A i \in DOMAIN visits :
         (IsNeg(visits[i].ret) /\ visits[i].ret \notin SoftErrors) =>
           /\ i = Len(visits)
           /\ last.ret = visits[i].ret
           /\ \A d \in Devs :
                d < visits[i].dev =>
                  /\ \A k \in DOMAIN visits : visits[k].dev # d
                  /\ \A k \in DOMAIN calls : calls[k].dev # d
                  /\ state[d] = last.old[d]
    /\ IsNeg(last.ret) =>
         /\ visits # <<>>
         /\ visits[Len(visits)].ret = last.ret
         /\ last.ret \notin SoftErrors

C9_Witness ==
  /\ IsPass
  /\ last.ret \in {EBUSY, EIO}
  /\ \E d \in Eligible :
       /\ pm_control[d]
       /\ d < visits[Len(visits)].dev
       /\ last.old[d] # last.target

\* C10: in a bulk pass a device whose pm_device_state_set returns ENOSYS,
\* ENOTSUP or EALREADY is not recorded and does not end the walk: the
\* next device that is not busy or wakeup-enabled is visited; a pass
\* without a hard error visits all such devices and returns 0.
C10_SoftErrorSkips ==
  IsPass =>
    /\ \A i \in DOMAIN visits :
         visits[i].ret \in SoftErrors =>
           /\ visits[i].dev \notin Range(slots)
           /\ LET below == {d \in Eligible : d < visits[i].dev}
              IN below # {} =>
                   /\ i + 1 \in DOMAIN visits
                   /\ visits[i + 1].dev \in below
                   /\ \A d \in below : d <= visits[i + 1].dev
    /\ (\A i \in DOMAIN visits : ~IsNeg(visits[i].ret) \/ visits[i].ret \in SoftErrors) =>
         /\ last.ret = OK
         /\ {visits[i].dev : i \in DOMAIN visits} = Eligible

C10_Witness ==
  /\ IsPass
  /\ last.ret = OK
  /\ \E i \in DOMAIN visits : \E k \in DOMAIN visits :
       /\ visits[i].ret \in SoftErrors
       /\ k > i
       /\ visits[k].ret = OK

\* C2 as stated: two concurrent pm_device_state_set calls on one device
\* are never both at the driver callback.
C2_AsStated ==
  \A t1 \in Threads : \A t2 \in Threads \ {t1} :
    ~(/\ tpc[t1] = "callback"
      /\ tpc[t2] = "callback"
      /\ targ[t1].dev = targ[t2].dev)

\* no call of device_pm_request is in progress and the driver has
\* confirmed every transition it was asked for
Quiescent == pending = <<>> /\ \A t \in Threads : rpc[t] = "idle"

\* C3 as stated: once as many puts as gets were made (usage is back at
\* 0 after at least one call), no call is in progress and every
\* completion callback was delivered, the device is SUSPENDED.
C3_AsStated ==
  (Quiescent /\ nreq > 0 /\ usage = 0) => fsm_state = DEVICE_PM_SUSPEND_STATE

\* C4 as stated: the usage count is never negative.
C4_AsStated == usage >= 0

\* C5 as stated: a call requests ACTIVE only if it is a get that moved
\* usage from 0 to 1, and SUSPENDED only if it is a put that moved usage
\* from 1 to 0.
C5_AsStated ==
  \A i \in DOMAIN rlast.req :
    /\ rlast.req[i] = DEVICE_PM_ACTIVE_STATE =>
         (rlast.target = DEVICE_PM_ACTIVE_STATE /\ rlast.from = 0 /\ rlast.to = 1)
    /\ rlast.req[i] = DEVICE_PM_SUSPEND_STATE =>
         (rlast.target = DEVICE_PM_SUSPEND_STATE /\ rlast.from = 1 /\ rlast.to = 0)

\* ------------------------------------- claims on pm_device_state_set
\* the devices dev requires, directly or through other devices
RECURSIVE RequiredAll(_)
RequiredAll(dev) ==
  requires[dev] \cup UNION {RequiredAll(e) : e \in requires[dev]}

\* positions in the callback log of the last operation's own device
Own == {i \in DOMAIN calls : calls[i].dev = last.dev}
IsHard(ret) == IsNeg(ret) /\ ret \notin SoftErrors
BringDown ==
  {PM_DEVICE_STATE_SUSPENDED, PM_DEVICE_STATE_LOW_POWER, PM_DEVICE_STATE_OFF}
\* the last operation was pm_device_state_set on a device with a callback
\* and a clear TRANSITIONING flag, for a target the switch accepts
LegalSet ==
  /\ IsSetCall
  /\ pm_control[last.dev]
  /\ PM_DEVICE_FLAG_TRANSITIONING \notin flags[last.dev]
  /\ last.target \in PmStates
  /\ last.old[last.dev] # last.target
  /\ ~(last.target = PM_DEVICE_STATE_SUSPENDED
       /\ last.old[last.dev] = PM_DEVICE_STATE_OFF)
\* some device that requires the last operation's device stood, before the
\* call, in the way of the target: no callback, or not in the target state
DependentInTheWay ==
  \E e \in supported(last.dev) : ~pm_control[e] \/ last.old[e] # last.target
ActionOf(target) ==
  CASE target = PM_DEVICE_STATE_SUSPENDED -> "SUSPEND"
    [] target = PM_DEVICE_STATE_ACTIVE -> "RESUME"
    [] target = PM_DEVICE_STATE_LOW_POWER -> "LOW_POWER"
    [] target = PM_DEVICE_STATE_OFF -> "TURN_OFF"
    [] OTHER -> "none"

\* C11 as stated: when pm_device_state_set(dev, ACTIVE) returns 0, dev and
\* every device with a callback that dev requires, directly or
\* transitively, are ACTIVE, and every RESUME callback of a required
\* device ran before dev's own.
C11_AsStated ==
  (IsSetCall /\ last.target = PM_DEVICE_STATE_ACTIVE /\ last.ret = OK) =>
    /\ state[last.dev] = PM_DEVICE_STATE_ACTIVE
    /\ \A B \in RequiredAll(last.dev) :
         pm_control[B] =>
           /\ state[B] = PM_DEVICE_STATE_ACTIVE
           /\ \A i \in DOMAIN calls : \A j \in Own :
                calls[i].dev = B => i < j

\* C12: when the RESUME callback of a required device fails with a hard
\* error (negative, not EALREADY, ENOTSUP or ENOSYS) during
\* pm_device_state_set(dev, ACTIVE), the call returns that error, nothing
\* runs after the failed callback, dev's callback is not invoked and dev's
\* state is unchanged.
C12_RequiredErrorAborts ==
  (IsSetCall /\ last.target = PM_DEVICE_STATE_ACTIVE) =>
    \A i \in DOMAIN calls :
      (calls[i].dev # last.dev /\ IsHard(calls[i].ret)) =>
        /\ last.ret = calls[i].ret
        /\ i = Len(calls)
        /\ Own = {}
        /\ state[last.dev] = last.old[last.dev]

C12_Witness ==
  /\ IsSetCall
  /\ last.target = PM_DEVICE_STATE_ACTIVE
  /\ pm_control[last.dev]
  /\ last.old[last.dev] # PM_DEVICE_STATE_ACTIVE
  /\ last.ret = EIO
  /\ calls # <<>>
  /\ calls[Len(calls)].dev \in requires[last.dev]

C14_AsStated ==
  (/\ LegalSet
   /\ last.target \in BringDown
   /\ pm_device_ignore_children_is_enabled(last.dev)) =>
    last.ret # EBUSY /\ Own # {}

\* C15 as stated: pm_device_state_set(dev, SUSPENDED) on an OFF device
\* returns -ENOTSUP and pm_device_state_set(dev, ACTIVE) on an OFF device
\* returns an error; neither invokes the callback and the device stays OFF.
C15_AsStated ==
  (/\ IsSetCall
   /\ pm_control[last.dev]
   /\ last.old[last.dev] = PM_DEVICE_STATE_OFF
   /\ last.target \in {PM_DEVICE_STATE_SUSPENDED, PM_DEVICE_STATE_ACTIVE}) =>
    /\ IsNeg(last.ret)
    /\ last.target = PM_DEVICE_STATE_SUSPENDED => last.ret = ENOTSUP
    /\ Own = {}
    /\ state[last.dev] = PM_DEVICE_STATE_OFF

\* C16: pm_device_state_set invokes the callback of its device at most
\* once, and when that callback returns an error the call returns the
\* same error and the device's pm state is what it was before the call.
C16_CallbackErrorReturned ==
  IsSetCall =>
    /\ Cardinality(Own) <= 1
    /\ \A i \in Own :
         IsNeg(calls[i].ret) =>
           /\ last.ret = calls[i].ret
           /\ i = Len(calls)
           /\ state[last.dev] = last.old[last.dev]

C16_Witness ==
  /\ IsSetCall
  /\ last.ret \in {EIO, ENOTSUP}
  /\ Own # {}
  /\ last.old[last.dev] # last.target

\* C17: a pm_device_state_set(dev, target) the switch accepts and whose
\* dependency check passes invokes dev's callback exactly once, with the
\* action of the target; when the callback succeeds the call returns 0,
\* pm_device_state_get reports target and TRANSITIONING is clear.
C17_OneCallbackThenState ==
  (/\ LegalSet
   /\ IF last.target \in BringDown THEN ~DependentInTheWay
      ELSE \A i \in DOMAIN calls : calls[i].dev # last.dev => ~IsHard(calls[i].ret)) =>
    /\ Cardinality(Own) = 1
    /\ \A i \in Own :
         /\ calls[i].action = ActionOf(last.target)
         /\ i = Len(calls)
         /\ calls[i].ret = OK =>
              /\ last.ret = OK
              /\ pm_device_state_get(last.dev, state) =
                   [ret |-> OK, state |-> last.target]
              /\ PM_DEVICE_FLAG_TRANSITIONING \notin flags[last.dev]

C17_Witness ==
  /\ LegalSet
  /\ last.ret = OK
  /\ last.target = PM_DEVICE_STATE_LOW_POWER
  /\ supported(last.dev) # {}
  /\ state[last.dev] = PM_DEVICE_STATE_LOW_POWER

\* C18: pm_device_state_set and pm_device_state_get on a device without a
\* pm_control callback return -ENOSYS, for every target, invoke no
\* callback and leave every device's state and flags as they were.
C18_NoCallbackNoEffect ==
  [][(/\ nops' # nops
      /\ last'.op \in {"pm_device_state_set", "pm_device_state_get"}
      /\ ~pm_control[last'.dev]) =>
       /\ last'.ret = ENOSYS
       /\ calls' = <<>>
       /\ state' = state
       /\ flags' = flags]_vars

C18_Witness ==
  /\ IsSetCall
  /\ ~pm_control[last.dev]
  /\ last.ret = ENOSYS
  /\ last.target = PM_DEVICE_STATE_ACTIVE
  /\ \E B \in requires[last.dev] : pm_control[B]

\* --------------------------------------- claims on device_pm_request
\* thread t returns from its call in this step
Returns(t) == rret'[t] # rret[t] /\ rret'[t] # "none"
TransitionalStates == {DEVICE_PM_RESUMING_STATE, DEVICE_PM_SUSPENDING_STATE}

\* C19 as stated: when device_pm_get_sync / device_pm_put_sync returns 0
\* the FSM state is the requested one (ACTIVE for get_sync, SUSPEND for
\* put_sync), and it returns -EIO exactly when the FSM state at the return
\* is not the requested one.
C19_AsStated ==
  [][\A t \in Threads :
       (rreq[t].sync /\ Returns(t)) =>
         /\ rret'[t] = OK => fsm_state' = rreq[t].target
         /\ rret'[t] = EIO <=> fsm_state' # rreq[t].target]_vars

\* C20 as stated: device_pm_get / device_pm_put never wait on the
\* condition variable; they return 1 exactly when the FSM state at the
\* return is RESUMING or SUSPENDING, and otherwise return 0 with the FSM
\* state being the requested one.
C20_AsStated ==
  [][\A t \in Threads :
       /\ ~rreq'[t].sync => rpc'[t] # "wait"
       /\ (~rreq[t].sync /\ Returns(t)) =>
            IF fsm_state' \in TransitionalStates
            THEN rret'[t] = "1"
            ELSE rret'[t] = OK /\ fsm_state' = rreq[t].target]_vars

\* C21 as stated: a thread parked on the condition variable inside
\* device_pm_get_sync / device_pm_put_sync does not hold dev->pm->lock.
C21_AsStated ==
  \A t \in Threads : rpc[t] = "wait" => t \notin lock

\* C22 as stated, for calls that leave the usage count non-negative:
\* before the scheduler starts no call waits on the condition variable,
\* and every transition a device_pm_get_sync / device_pm_put_sync asks the
\* driver for is the one toward its target (ACTIVE for get_sync, SUSPEND
\* for put_sync).
C22_AsStated ==
  pre_kernel =>
    /\ \A t \in Threads : rpc[t] \notin {"towait", "wait", "woken"}
    /\ (rlast.thread # NoThread /\ rlast.sync /\ rlast.from >= 0 /\ rlast.to >= 0) =>
         \A i \in DOMAIN rlast.req : rlast.req[i] = rlast.target

\* C26 as stated, for calls made after the scheduler started, with the
\* usage count non-negative: the driver is asked for a transition only
\* when every transition it was asked for before has been confirmed.
C26_AsStated ==
  [][(/\ ~pre_kernel
      /\ usage >= 0
      /\ usage' >= 0
      /\ Len(pending') > Len(pending)) => pending = <<>>]_vars

\* C27 as stated: a device_pm_get_sync / device_pm_put_sync call in
\* progress after the scheduler started eventually returns.
C27_AsStated ==
  \A t \in Threads :
    (~pre_kernel /\ rreq[t].sync /\ rpc[t] # "idle") ~> (rpc[t] = "idle")

\* C28 as stated: a thread that is not inside device_pm_request does not
\* hold dev->pm->lock.
C28_AsStated ==
  \A t \in Threads : rpc[t] = "idle" => t \notin lock

\* C29 as stated: a call that found the device ACTIVE with a non-negative
\* usage count and is a get, or a put that leaves the usage count above
\* zero, asks the driver for nothing and returns 0.
C29_AsStated ==
  \A t \in Threads :
    (/\ rlast.thread = t
     /\ rpc[t] = "idle"
     /\ rret[t] # "none"
     /\ rlast.fsm = DEVICE_PM_ACTIVE_STATE
     /\ rlast.from >= 0
     /\ \/ rlast.target = DEVICE_PM_ACTIVE_STATE
        \/ rlast.target = DEVICE_PM_SUSPEND_STATE /\ rlast.to > 0) =>
      /\ rlast.req = <<>>
      /\ rret[t] = OK

\* ------------------------------------------ claims on the recorded list
\* the devices of the visits whose pm_device_state_set returned success,
\* in the order of the visits
RECURSIVE Transitioned(_)
Transitioned(vis) ==
  IF vis = <<>> THEN <<>>
  ELSE IF IsNeg(Head(vis).ret) THEN Transitioned(Tail(vis))
  ELSE <<Head(vis).dev>> \o Transitioned(Tail(vis))

\* C30: after pm_suspend_devices / pm_low_power_devices, whatever it
\* returned, the recorded list is the devices whose pm_device_state_set
\* returned success in this pass, each once, in the order of the pass; no
\* busy or wakeup-enabled device is in it, and it is no longer than the
\* device table.
C30_RecordedExactly ==
  IsPass =>
    /\ slots = Transitioned(visits)
    /\ \A i \in DOMAIN slots : \A j \in DOMAIN slots : slots[i] = slots[j] => i = j
    /\ \A i \in DOMAIN slots : \A j \in DOMAIN slots : i < j => slots[i] > slots[j]
    /\ Range(slots) \subseteq Eligible
    /\ Len(slots) <= NDev

C30_Witness ==
  /\ IsPass
  /\ last.rec # <<>>
  /\ slots # <<>>
  /\ IsNeg(last.ret)
  /\ Len(visits) > Len(slots)

\* ------------------------------------------ claims on the power domains
\* the dependents that hold a reference
Held == {d \in Dependents : dusage[d] > 0}
IsGet == dlast.op = "pm_device_runtime_get"
IsPut == dlast.op = "pm_device_runtime_put"
DomainResumed ==
  /\ dlast.old[test_domain] = PM_DEVICE_STATE_SUSPENDED
  /\ dstate[test_domain] = PM_DEVICE_STATE_ACTIVE
DomainSuspended ==
  /\ dlast.old[test_domain] = PM_DEVICE_STATE_ACTIVE
  /\ dstate[test_domain] = PM_DEVICE_STATE_SUSPENDED
\* action delivered once to every dependent, in table order
FanOut(action) == [i \in Dependents |-> [dev |-> i, action |-> action]]

\* C23: with the domain and its dependents SUSPENDED at the start, a
\* dependent is ACTIVE exactly while it holds a reference, the domain is
\* ACTIVE exactly while some dependent holds one or a reference taken on
\* the domain itself is held, every get returns 0 and leaves its device
\* and the domain ACTIVE, and every put of a held reference returns 0.
C23_DomainRefCounted ==
  /\ \A d \in Dependents :
       /\ dstate[d] = PM_DEVICE_STATE_ACTIVE <=> d \in Held
       /\ d \in Held => dstate[test_domain] = PM_DEVICE_STATE_ACTIVE
  /\ dstate[test_domain] = PM_DEVICE_STATE_ACTIVE <=> (Held # {} \/ ddirect > 0)
  /\ IsGet =>
       /\ dlast.ret = OK
       /\ dstate[dlast.dev] = PM_DEVICE_STATE_ACTIVE
       /\ dstate[test_domain] = PM_DEVICE_STATE_ACTIVE
  /\ (IsPut /\ dlast.oldusage[dlast.dev] > 0) => dlast.ret = OK

C23_Witness ==
  /\ IsPut
  /\ dlast.dev \in Dependents
  /\ ddirect = 0
  /\ dlast.ret = OK
  /\ DomainSuspended
  /\ dops = 2 * NDependents

\* C24: an operation that resumes the domain delivers TURN_ON exactly
\* once to each of its dependents, one that suspends it delivers TURN_OFF
\* exactly once to each, both before the operation returns, and no other
\* operation delivers anything; a counter the test set to the number of
\* dependents is back at 0 after the get or put of the domain.
C24_FanOutOnceEach ==
  dlast.op # "init" =>
    /\ dlast.notif = IF DomainResumed THEN FanOut("TURN_ON")
                     ELSE IF DomainSuspended THEN FanOut("TURN_OFF")
                     ELSE <<>>
    /\ (DomainResumed /\ dlast.on0 = NDependents) => on_notif = 0
    /\ (DomainSuspended /\ dlast.on0 = 0 /\ dlast.off0 = NDependents) =>
         off_notif = 0
    /\ (IsGet /\ dlast.dev = test_domain /\ dlast.oldusage[test_domain] = 0) =>
         DomainResumed
    /\ (IsPut /\ dlast.dev = test_domain /\ dlast.oldusage[test_domain] = 1) =>
         DomainSuspended

C24_Witness ==
  /\ IsPut
  /\ dlast.dev = test_domain
  /\ DomainSuspended
  /\ dlast.on0 = 0
  /\ dlast.off0 = NDependents
  /\ off_notif = 0
  /\ Len(dlast.notif) = NDependents

Skipped == Devs \ Eligible
\* positions of the last pass at which pm_device_state_set ran on dev
VisitsOf(dev) == {i \in DOMAIN visits : visits[i].dev = dev}
\* dev was held back: the dependent check refused it, its callback was not
\* invoked, its state is what it was, and the pass returned EBUSY
HeldBack(dev) ==
  /\ \A i \in VisitsOf(dev) : visits[i].ret = EBUSY
  /\ \A k \in DOMAIN calls : calls[k].dev # dev
  /\ state[dev] = last.old[dev]
  /\ dev \notin Range(slots)
  /\ last.ret = EBUSY

\* C31 as stated: in pm_suspend_devices, when a skipped device D is not
\* SUSPENDED and the pass reaches a device R that D requires, R being
\* neither skipped nor SUSPENDED, pm_device_state_set(R) returns EBUSY
\* with no callback on R and the pass returns EBUSY.
C31_AsStated ==
  last.op = "pm_suspend_devices" =>
    \A D \in Skipped : \A R \in requires[D] \cap Eligible :
      (/\ last.old[D] # PM_DEVICE_STATE_SUSPENDED
       /\ last.old[R] # PM_DEVICE_STATE_SUSPENDED
       /\ VisitsOf(R) # {})
        => HeldBack(R)

\* C31 amended: the same for a device R that has a pm_control callback
\* and is not OFF.
C31_SkippedDependentHoldsUp ==
  last.op = "pm_suspend_devices" =>
    \A D \in Skipped : \A R \in requires[D] \cap Eligible :
      (/\ last.old[D] # PM_DEVICE_STATE_SUSPENDED
       /\ last.old[R] \notin {PM_DEVICE_STATE_SUSPENDED, PM_DEVICE_STATE_OFF}
       /\ pm_control[R]
       /\ VisitsOf(R) # {})
        => HeldBack(R)

C31_Witness ==
  /\ last.op = "pm_suspend_devices"
  /\ \E D \in Skipped : \E R \in requires[D] \cap Eligible :
       /\ last.old[D] = PM_DEVICE_STATE_LOW_POWER
       /\ last.old[R] = PM_DEVICE_STATE_ACTIVE
       /\ pm_control[R]
       /\ VisitsOf(R) # {}
       /\ last.ret = EBUSY

\* the last operation is a pm_resume_devices
IsResume == last.op = "pm_resume_devices"
\* the two operations before the last were bulk passes
AfterTwoPasses == last.prev \in PassOps /\ before.prev \in PassOps
\* no bulk pass ran since the pm_resume_devices (or the boot) before
NoNewPass ==
  \/ last.prev \in {"pm_resume_devices", "init"}
  \/ /\ last.prev \notin PassOps
     /\ before.prev \in {"pm_resume_devices", "init"}

\* C32 as stated: a pm_resume_devices that follows two bulk passes asks
\* for ACTIVE (no RESUME callback runs otherwise) only on devices the
\* second pass transitioned, the recorded list is then empty, and a
\* pm_resume_devices with no bulk pass since the one before invokes no
\* callback at all.
C32_AsStated ==
  IsResume =>
    /\ slots = <<>>
    /\ AfterTwoPasses =>
         \A k \in DOMAIN calls : calls[k].dev \in Range(last.rec)
    /\ NoNewPass => calls = <<>>

\* ------------------------------------------------ claims on the flags
\* the flags of dev before and after the step differ at most in bit, and
\* no other device's flags differ
OnlyBit(dev, bit) ==
  /\ flags'[dev] \ {bit} = flags[dev] \ {bit}
  /\ \A e \in Devs \ {dev} : flags'[e] = flags[e]
\* every written bit is as the operation that took effect last left it
NoUpdateLost == \A d \in Devs : flags[d] \cap WrittenBits = fwant[d]
\* the step is a step of a flag operation: a toggle reads the flags, or
\* an operation returns
FlagStep == fpc' # fpc \/ flast' # flast

\* C33: a step of a flag operation changes no pm state and no usage
\* count and at most the operation's own bit of its device; a busy
\* set/clear leaves BUSY as asked; pm_device_wakeup_enable on a device
\* that is not WS_CAPABLE returns false and changes nothing; a toggle
\* whose compare-and-swap meets flags changed since its read returns false
\* and changes nothing, otherwise it returns true and writes its bit over
\* the flags as they are then, so that every bit stays as the operation
\* that took effect last left it.
C33_FlagsIndependent ==
  [][FlagStep =>
       /\ state' = state
       /\ usage' = usage
       /\ fsm_state' = fsm_state
       /\ NoUpdateLost'
       /\ flast' = flast => flags' = flags
       /\ flast' # flast =>
            LET c == flast'.call
                bit == OwnBit(c.op)
            IN /\ OnlyBit(c.dev, bit)
               /\ c.op \in {"pm_device_busy_set", "pm_device_busy_clear"} =>
                    (PM_DEVICE_FLAG_BUSY \in flags'[c.dev] <=> c.enable)
               /\ (c.op = "pm_device_wakeup_enable"
                     /\ PM_DEVICE_FLAGS_WS_CAPABLE \notin flags[c.dev]) =>
                    (flast'.ret = "false" /\ flags' = flags /\ fpc' = fpc)
               /\ c.op \in Toggles =>
                    \/ /\ flast'.ret = "false"
                       /\ flags' = flags
                       /\ \/ flags[c.dev] # c.flags
                          \/ /\ c.op = "pm_device_wakeup_enable"
                             /\ PM_DEVICE_FLAGS_WS_CAPABLE \notin flags[c.dev]
                    \/ /\ flast'.ret = "true"
                       /\ flags[c.dev] = c.flags
                       /\ bit \in flags'[c.dev] <=> c.enable
    ]_vars

\* a toggle lost the race against a busy set: it read the flags without
\* BUSY, its compare-and-swap met BUSY set and failed, BUSY is still set
C33_Witness ==
  /\ flast.call.op = "pm_device_ignore_children_enable"
  /\ flast.call.enable
  /\ flast.ret = "false"
  /\ PM_DEVICE_FLAG_BUSY \notin flast.call.flags
  /\ flast.cur = flast.call.flags \cup {PM_DEVICE_FLAG_BUSY}
  /\ PM_DEVICE_FLAG_BUSY \in flags[flast.call.dev]
  /\ PM_DEVICE_FLAG_IGNORE_CHILDREN \notin flags[flast.call.dev]

====
